---- MODULE Spec2Model ----
(***************************************************************************)
(* Model of pyPotatoNV's upload protocol engine (src/imageflasher.py) and  *)
(* of the stage sequence that drives it (src/main.py, and the download     *)
(* wrapper of src/imageflasher.py).                                        *)
(*                                                                         *)
(* Spec: one behaviour is one run of one entry point: main (connect, then  *)
(* xupload of xloader / uce / fastboot, then the fastboot commands),       *)
(* download (connect, start frame, download_from_disk -> send_data), or a  *)
(* direct call of xupload / send_data on a flasher inside a with-block,    *)
(* connected or not.  The serial line is modelled by the log `wire` of the *)
(* frames handed to serial.write, one entry per send_frame call that wrote *)
(* at least once; `writes` counts the writes of the call in progress.      *)
(*                                                                         *)
(* SpecConnect: connect_serial over every list of enumerated ports.        *)
(* SpecCodec: calc_crc, the frame builders and send_frame at the level of  *)
(* the bytes written.                                                      *)
(* SpecGui: the GUI (src/app.py): the Tk main thread (clicks, queued       *)
(* callbacks), the USB monitor thread and the run_main_script workers.     *)
(***************************************************************************)
EXTENDS Integers, Sequences, FiniteSets, TLC

VARIABLES
    entry,      \* which entry point runs: "main", "download", "xupload", "send_data"
    roles,      \* main.py: the RoleTable's keys (load_manifest's result)
    pc,         \* position of the run
    ports,      \* the serial ports comports() enumerates
    device,     \* connect_serial: the device it selected (0: none)
    serial,     \* ImageFlasher.serial: "none" (None), "open", "closed"
    timeout,    \* serial.timeout in milliseconds (0 while there is no serial)
    wire,       \* frames written to the connection, in order
    cur,        \* the frame send_frame is sending (or sent last)
    tries,      \* send_frame: loop iterations consumed by the current call
    writes,     \* send_frame: serial.write calls made by the current call
    fails,      \* send_frame: the list `fails` (attempt numbers that raised)
    last,       \* outcome of the latest attempt
    sf,         \* latest send_frame call: "idle", "running", "returned", "raised"
    raised,     \* the element of `fails` that send_frame raised (0: none)
    stage,      \* main: index into StageOrder
    data,       \* upload in progress: the `data` argument (NoData before any upload)
    length,     \* upload in progress: length
    nframes,    \* upload in progress: nframes
    n,          \* upload in progress: loop iterations begun
    elapsed,    \* seconds since the header frame of the upload was sent
    exc,        \* the exception that ended the run ("none": none)
    mode,       \* main: "unlock", "wipefrp" or "none" ("unread" until main reads it)
    cmds,       \* main: the fastboot commands issued, in order
    arg,        \* SpecCodec: the input of the operation
    buf,        \* send_frame: its local `data` after the trailer was appended
    out,        \* the bytes of the latest serial.write
    res,        \* SpecCodec: calc_crc's result (-1: none)
    device_connected,   \* FlasherGUI.device_connected
    sudo_password,      \* FlasherGUI.sudo_password is set (not None)
    go_button,          \* state of each tab's Go button
    events,             \* update_device_status callbacks queued by after(0, ...)
    workers             \* run_main_script threads, in the order they were started

vars == <<entry, roles, pc, ports, device, serial, timeout, wire, cur, tries, writes,
          fails, last, sf, raised, stage, data, length, nframes, n, elapsed, exc,
          mode, cmds, arg, buf, out, res,
          device_connected, sudo_password, go_button, events, workers>>

\* The variables of the GUI, and those of a flashing run.
gui == <<device_connected, sudo_password, go_button, events, workers>>
flash == <<entry, roles, pc, ports, device, serial, timeout, wire, cur, tries, writes,
           fails, last, sf, raised, stage, data, length, nframes, n, elapsed, exc,
           mode, cmds, arg, buf, out, res>>

----------------------------------------------------------------------------
\* Program constants.

MAX_DATA_LEN == 1024
UPLOAD_TIMEOUT == 50
IDT_VID == 4817
IDT_PID == 13833

StartLoop == 10000
HeadLoop == 10
DataLoop == 40
TailLoop == 10

DefaultTimeoutMs == 1000
StartTimeoutMs == 30
HeadTimeoutMs == 90
DataTimeoutMs == 450
TailTimeoutMs == 10

\* Bounds of the model.

MaxChunks == 2      \* payloads have up to MaxChunks full chunks (+ a partial one)
MaxPorts == 2       \* enumerated ports matching the vendor/product id
TickSeconds == 25   \* granularity of the wall clock
MaxSeq == 300       \* SpecCodec: the largest frame index
MaxCrcLen == 3      \* SpecCodec: calc_crc inputs of up to MaxCrcLen bytes
MaxWorkers == 3     \* SpecGui: run_main_script threads started in one behaviour
MaxPending == 2     \* SpecGui: callbacks waiting in the Tk event queue

Roles == {"xloader", "uce", "fastboot"}

\* Payload lengths: empty, exact multiples of the chunk size, and one byte more.
Lengths == {q * MAX_DATA_LEN + r : q \in 0..MaxChunks, r \in {0, 1}}

\* Values of the `length` argument a caller can pass with data that is not bytes.
ArgLengths == Lengths \cup {-1, -MAX_DATA_LEN}

NoFrame == [kind |-> "none", n |-> 0, img |-> "none", len |-> 0, lo |-> 0, hi |-> 0]

NoData == [bytes |-> FALSE, size |-> -1]

NoArg == [op |-> "none", n |-> 0, addr |-> 0, bytes |-> <<>>]

\* A port as comports() reports it: ids and device path (its place in the list).
Port(v, p, d) == [vid |-> v, pid |-> p, device |-> d]

\* Spec: k attached devices in IDT mode, k = 0..MaxPorts.
IdtPortLists == {[i \in 1..k |-> Port(IDT_VID, IDT_PID, i)] : k \in 0..MaxPorts}

\* SpecConnect: every list of up to MaxPorts + 1 ports, each with the right or
\* another vendor id and the right or another product id.
AllPortLists ==
    UNION {{[i \in 1..k |-> Port(f[i][1], f[i][2], i)] :
              f \in [1..k -> {IDT_VID, IDT_VID + 1} \X {IDT_PID, IDT_PID + 1}]} :
           k \in 0..(MaxPorts + 1)}

----------------------------------------------------------------------------
\* Pure helpers.

\* nframes with the partial chunk dropped.
NFramesFloor(len) == len \div MAX_DATA_LEN

\* nframes = length // MAX_DATA_LEN + (1 if length % MAX_DATA_LEN > 0 else 0)
NFrames(len) == (len \div MAX_DATA_LEN) + (IF len % MAX_DATA_LEN > 0 THEN 1 ELSE 0)

\* n & 0xFF
SeqByte(k) == k % 256

\* Arithmetic negation in place of the bitwise complement.
CompByteNeg(k) == (0 - k) % 256

\* (~n) & 0xFF, with ~n = -n - 1
CompByte(k) == (0 - k - 1) % 256

\* The `loop` argument each frame kind passes to send_frame.
LoopOf(kind) ==
    CASE kind = "start" -> StartLoop
      [] kind = "head"  -> HeadLoop
      [] kind = "data"  -> DataLoop
      [] kind = "tail"  -> TailLoop

\* itertools.repeat(None, loop - 1): the iterations send_frame makes.
Iterations(loop) == loop - 1

\* A tail frame sent with the timeout of a header frame.
TimeoutOfTailAsHead(kind) ==
    CASE kind = "start" -> StartTimeoutMs
      [] kind = "head"  -> HeadTimeoutMs
      [] kind = "data"  -> DataTimeoutMs
      [] kind = "tail"  -> HeadTimeoutMs

\* serial.timeout set by send_*_frame before send_frame.
TimeoutOf(kind) ==
    CASE kind = "start" -> StartTimeoutMs
      [] kind = "head"  -> HeadTimeoutMs
      [] kind = "data"  -> DataTimeoutMs
      [] kind = "tail"  -> TailTimeoutMs

\* The upload function the entry point uses.
Api == IF entry \in {"main", "xupload"} THEN "xupload" ELSE "send_data"

\* The bootloader image uploaded before the optional secondary image.
StageOrderSwapped == <<"xloader", "fastboot", "uce">>

\* main's fixed order of images.
StageOrder == <<"xloader", "uce", "fastboot">>

\* The image being uploaded.
Img == IF entry = "main" THEN StageOrder[stage] ELSE "image"

\* A send_data that never looks at the clock.
DeadlineNever(api, secs) == FALSE

\* send_data: time.time() - start_time > UPLOAD_TIMEOUT; xupload has no check.
DeadlineExceeded(api, secs) == api = "send_data" /\ secs > UPLOAD_TIMEOUT

\* Data frames numbered from 0 (the loop variable passed as it is).
DataIndexZeroBased(api, i) == i

\* The sequence number of the data frame of the (i+1)-th iteration:
\* send_data passes n + 1 (n from range(nframes)), xupload seq from range(1, nframes + 1).
DataIndex(api, i) == i + 1

\* A tail frame that carries send_data's last loop value n instead of n + 1.
TailCountLoopVar(api, i, nf) == IF api = "send_data" THEN i - 1 ELSE nf

\* The count the tail frame carries after i iterations: send_data passes n + 1 with
\* n the last loop value (i - 1), xupload passes nframes.
TailCount(api, i, nf) == IF api = "send_data" THEN (i - 1) + 1 ELSE nf

Min(a, b) == IF a <= b THEN a ELSE b

\* The payload bytes [lo, hi) of the chunk of the (i+1)-th iteration, for data of
\* `size` bytes: the slice data[i * 1024 : (i + 1) * 1024] (send_data with bytes,
\* xupload), or the next data.read(1024) of a stream after i reads.
ChunkLo(i, size) == Min(i * MAX_DATA_LEN, size)
ChunkHi(i, size) == Min((i + 1) * MAX_DATA_LEN, size)

\* An __exit__ that leaves the connection as it is.
ExitSerialLeak(s) == s

\* __exit__: if self.serial: self.serial.close()
ExitSerial(s) == IF s # "none" THEN "closed" ELSE s

\* A port matches when either id is the IDT one.
IsIdtEither(p) == p.vid = IDT_VID \/ p.pid = IDT_PID

\* p.vid == IDT_VID and p.pid == IDT_PID
IsIdt(p) == p.vid = IDT_VID /\ p.pid = IDT_PID

\* matching_ports = [p for p in ports if ...]
MatchingPorts(ps) == SelectSeq(ps, IsIdt)

\* A main that goes on to the fastboot stage whatever the uploads did.
ExitTargetAlways(en, e) == IF en = "main" THEN "settle" ELSE "done"

\* Where a run goes after __exit__: main goes on past the with-block only when
\* nothing was raised (the exception propagates out of main); download logs.
ExitTarget(en, e) == IF en = "main" /\ e = "none" THEN "settle" ELSE "done"

\* main: the fastboot commands of each mode, in order.
Plan(m) ==
    CASE m = "wipefrp" -> <<"oem frp-erase">>
      [] m = "unlock"  -> <<"getvar:nve:WVLOCK", "getvar:nve:WVLOCK@newkey",
                            "getvar:nve:USRKEY@usrkey", "getvar:nve:FBLOCK@00">>
      [] OTHER         -> <<>>

----------------------------------------------------------------------------
\* Bytes: calc_crc and the frame builders.

\* a ^ b on bytes, bit by bit.
Xor8(a, b) ==
    LET bit(i) == ((a \div (2 ^ i)) + (b \div (2 ^ i))) % 2
    IN bit(0) + 2 * bit(1) + 4 * bit(2) + 8 * bit(3)
         + 16 * bit(4) + 32 * bit(5) + 64 * bit(6) + 128 * bit(7)

\* a ^ b on naturals below 2^24.
Xor(a, b) ==
    Xor8(a % 256, b % 256)
      + 256 * Xor8((a \div 256) % 256, (b \div 256) % 256)
      + 65536 * Xor8(a \div 65536, b \div 65536)

\* binascii.crc_hqx(bytes([b]), 0): CRC-CCITT, polynomial 0x1021, of one byte.
RECURSIVE HqxShift(_, _)
HqxShift(v, k) ==
    IF k = 0 THEN v
    ELSE IF v >= 32768 THEN HqxShift(Xor((2 * v) % 65536, 4129), k - 1)
    ELSE HqxShift(2 * v, k - 1)

\* The 256 values of crc_hqx on one byte, computed once.
CrcTable == [b \in 0..255 |-> HqxShift(b * 256, 8)]

CrcHqxByte(b) == CrcTable[b]

\* calc_crc's `crc` is a Python integer, which never overflows: it is kept here as
\* its base-256 digits, lowest first (<<>> is 0).
Digit(acc, i) == IF i <= Len(acc) THEN acc[i] ELSE 0

\* The table index taken from the lowest byte.
CrcHighByteUnshifted(acc) == Digit(acc, 1)

\* (crc >> 8) & 0xFF
CrcHighByte(acc) == Digit(acc, 2)

\* (crc << 8) | char
CrcShiftOr(acc, char) == <<char>> \o acc

\* crc ^ t for a 16-bit t
CrcXor16(acc, t) ==
    <<Xor8(Digit(acc, 1), t % 256), Xor8(Digit(acc, 2), t \div 256)>>
      \o (IF Len(acc) > 2 THEN SubSeq(acc, 3, Len(acc)) ELSE <<>>)

\* crc = ((crc << 8) | char) ^ binascii.crc_hqx(bytes([(crc >> 8) & 0xFF]), 0)
CrcStep(acc, char) == CrcXor16(CrcShiftOr(acc, char), CrcHqxByte(CrcHighByte(acc)))

\* for char in data: crc = step(crc, char).  Each iteration evaluates its
\* accumulator before the next one starts, as the assignment does (the length
\* of a digit sequence is never negative).
RECURSIVE CrcFeed(_, _)
CrcFeed(acc, s) ==
    IF s = <<>> \/ Len(acc) < 0 THEN acc
    ELSE CrcFeed(CrcStep(acc, Head(s)), Tail(s))

\* return crc & 0xFFFF
CrcMask(acc) == Digit(acc, 1) + 256 * Digit(acc, 2)

\* calc_crc(data): every byte of data, then two zero bytes, then the mask.
calc_crc(d) == CrcMask(CrcFeed(CrcFeed(<<>>, d), <<0, 0>>))

\* x.to_bytes(2 / 4, byteorder="big", signed=False)
BE16(x) == <<(x \div 256) % 256, x % 256>>
BE32(x) == <<(x \div 16777216) % 256, (x \div 65536) % 256, (x \div 256) % 256, x % 256>>

startframe == <<254, 0, 255, 1, 0, 0, 0, 4, 0, 0, 2, 1>>
headframe == SubSeq(startframe, 1, 4)

\* send_head_frame / send_data_frame / send_tail_frame: the bytes given to send_frame.
HeadFrameBytes(len, address) == headframe \o BE32(len) \o BE32(address)
DataFrameBytes(k, chunk) == <<218, SeqByte(k), CompByte(k)>> \o chunk
TailFrameBytes(k) == <<237, SeqByte(k), CompByte(k)>>

\* The frame an input of SpecCodec asks for.
FrameBody(a) ==
    CASE a.op = "start" -> startframe
      [] a.op = "head"  -> HeadFrameBytes(a.n, a.addr)
      [] a.op = "data"  -> DataFrameBytes(a.n, a.bytes)
      [] a.op = "tail"  -> TailFrameBytes(a.n)

\* send_frame: crc = calc_crc(data); data += crc.to_bytes(2, byteorder="big")
WithTrailer(d) == d \o BE16(calc_crc(d))

\* The trailer appended again on every retry.
AttemptBytesRetrailed(b, t) ==
    IF t = 0 \/ Len(b) < 2 THEN b ELSE b \o SubSeq(b, Len(b) - 1, Len(b))

\* The bytes iteration t of send_frame's loop writes: serial.write(data), with
\* `data` bound once before the loop.
AttemptBytes(b, t) == b

\* Inputs of SpecCodec.
ByteSamples == {0, 1, 127, 128, 218, 255}
CrcInputs == UNION {[1..k -> ByteSamples] : k \in 0..MaxCrcLen}
ChunkSamples == {<<1>>, <<255, 0, 128>>}
SeqSamples == {1, 2, 127, 128, 255, 256, 257, MaxSeq}

CodecArgs ==
    {[op |-> "crc", n |-> 0, addr |-> 0, bytes |-> s] : s \in CrcInputs}
    \cup {[op |-> "start", n |-> 0, addr |-> 0, bytes |-> <<>>]}
    \cup {[op |-> "head", n |-> l, addr |-> a, bytes |-> <<>>] :
            l \in {1, 2500}, a \in {0, 1048576}}
    \cup {[op |-> "data", n |-> k, addr |-> 0, bytes |-> c] :
            k \in SeqSamples, c \in ChunkSamples}
    \cup {[op |-> "tail", n |-> k, addr |-> 0, bytes |-> <<>>] : k \in SeqSamples}

----------------------------------------------------------------------------
\* FlasherGUI.__init__: no device seen, no password, both Go buttons disabled.
Tabs == {"Unlock", "Erase FRP"}

GuiInit ==
    /\ device_connected = FALSE
    /\ sudo_password = FALSE
    /\ go_button = [t \in Tabs |-> "disabled"]
    /\ events = 0
    /\ workers = <<>>

\* What every run starts with, whatever the entry point.
InitCommon ==
    /\ GuiInit
    /\ device = 0
    /\ wire = <<>>
    /\ cur = NoFrame
    /\ tries = 0
    /\ writes = 0
    /\ fails = <<>>
    /\ last = "none"
    /\ sf = "idle"
    /\ raised = 0
    /\ stage = 1
    /\ data = NoData
    /\ length = 0
    /\ nframes = 0
    /\ n = 0
    /\ elapsed = 0
    /\ exc = "none"
    /\ mode = "unread"
    /\ cmds = <<>>
    /\ buf = <<>>
    /\ out = <<>>
    /\ res = -1

\* A run of main or download, or a with-block around one call of xupload or
\* send_data, with connect_serial called first ("connect") or not ("call").
Init ==
    /\ entry \in {"main", "download", "xupload", "send_data"}
    /\ roles \in IF entry = "main" THEN SUBSET Roles ELSE {{}}
    /\ pc \in IF entry \in {"main", "download"} THEN {"connect"} ELSE {"connect", "call"}
    /\ ports \in IdtPortLists
    /\ serial = "none"
    /\ timeout = 0
    /\ arg = NoArg
    /\ InitCommon

\* An exception leaves the with-block: __exit__ runs next.
Raise(e) ==
    /\ exc' = e
    /\ pc' = "exit"

\* send_*_frame up to the call of send_frame: set the timeout, build the frame
\* (for a data frame of the payload bytes [lo, hi)).
BeginFrame(kind, k, len, lo, hi) ==
    /\ timeout' = IF serial # "none" THEN TimeoutOf(kind) ELSE timeout
    /\ cur' = [kind |-> kind, n |-> k, img |-> IF kind = "start" THEN "none" ELSE Img,
               len |-> len, lo |-> lo, hi |-> hi]
    /\ tries' = 0
    /\ writes' = 0
    /\ fails' = <<>>
    /\ sf' = "running"
    /\ pc' = "send"

\* connect_serial(): autodetect the port, open it.
ConnectSerial ==
    /\ pc = "connect"
    /\ LET matching == MatchingPorts(ports) IN
       IF matching = <<>> \/ Len(matching) > 1
       THEN /\ Raise("DeviceDetectException")
            /\ UNCHANGED <<device, serial, timeout>>
       ELSE /\ device' = matching[1].device
            /\ \E opens \in BOOLEAN :
                 IF opens
                 THEN /\ serial' = "open"
                      /\ timeout' = DefaultTimeoutMs
                      /\ pc' = CASE entry = "main"     -> "stage"
                                 [] entry = "download" -> "start"
                                 [] OTHER              -> "call"
                      /\ exc' = exc
                 ELSE /\ Raise("SerialException")
                      /\ UNCHANGED <<serial, timeout>>
    /\ UNCHANGED <<gui, entry, roles, ports, arg, res, wire, cur, tries, writes, fails, last,
                   sf, raised, stage, data, length, nframes, n, elapsed, mode, cmds,
                   buf, out>>

\* download: flasher.send_start_frame()
SendStartFrame ==
    /\ pc = "start"
    /\ BeginFrame("start", 0, 0, 0, 0)
    /\ UNCHANGED <<gui, entry, roles, ports, arg, res, device, serial, wire, last, raised,
                   stage, data, length, nframes, n, elapsed, exc, mode, cmds, buf, out>>

\* main: on to the next image, or out of the with-block after the last one.
NextStage ==
    IF stage < Len(StageOrder)
    THEN /\ stage' = stage + 1
         /\ pc' = "stage"
    ELSE /\ stage' = stage
         /\ pc' = "exit"

\* The body of xupload / send_data up to the header frame, for the data d and the
\* length len (len(data) for bytes, the caller's `length` otherwise).
BeginUpload(api, d, len) ==
    /\ data' = d
    /\ length' = len
    /\ IF api = "xupload" /\ serial = "none"
       THEN /\ Raise("FlashException")
            /\ UNCHANGED <<timeout, cur, tries, writes, fails, sf, nframes>>
       ELSE IF len = 0
       THEN /\ Raise("FlashException")
            /\ UNCHANGED <<timeout, cur, tries, writes, fails, sf, nframes>>
       ELSE IF len < 0
       THEN \* send_head_frame: length.to_bytes(4, signed=False) raises
            /\ nframes' = NFrames(len)
            /\ timeout' = IF serial # "none" THEN TimeoutOf("head") ELSE timeout
            /\ Raise("OverflowError")
            /\ UNCHANGED <<cur, tries, writes, fails, sf>>
       ELSE /\ nframes' = NFrames(len)
            /\ BeginFrame("head", 0, len, 0, d.size)
            /\ exc' = exc

\* main: one step of the stage sequence: look the role up, read the file, call xupload.
Stage ==
    /\ pc = "stage"
    /\ LET role == StageOrder[stage] IN
       IF role = "uce" /\ role \notin roles
       THEN /\ NextStage
            /\ UNCHANGED <<timeout, cur, tries, writes, fails, sf, data, length,
                           nframes, exc>>
       ELSE IF role \notin roles
       THEN /\ Raise("KeyError")
            /\ UNCHANGED <<stage, timeout, cur, tries, writes, fails, sf, data, length,
                           nframes>>
       ELSE \E readable \in BOOLEAN, len \in Lengths :
              /\ stage' = stage
              /\ IF ~readable
                 THEN /\ Raise("OSError")
                      /\ UNCHANGED <<timeout, cur, tries, writes, fails, sf, data,
                                     length, nframes>>
                 ELSE BeginUpload("xupload", [bytes |-> TRUE, size |-> len], len)
    /\ UNCHANGED <<gui, entry, roles, ports, arg, res, device, serial, wire, last, raised, n,
                   elapsed, mode, cmds, buf, out>>

\* download: flasher.download_from_disk(filename, address)
DownloadFromDisk ==
    /\ pc = "disk"
    /\ \E readable \in BOOLEAN, len \in Lengths :
         IF ~readable
         THEN /\ Raise("OSError")
              /\ UNCHANGED <<timeout, cur, tries, writes, fails, sf, data, length,
                             nframes>>
         ELSE BeginUpload("send_data", [bytes |-> FALSE, size |-> len], len)
    /\ UNCHANGED <<gui, entry, roles, ports, arg, res, device, serial, wire, last, raised,
                   stage, n, elapsed, mode, cmds, buf, out>>

\* A caller's flasher.xupload(address, data, length) or
\* flasher.send_data(data, length, address): data is bytes (its len is the length)
\* or a buffer / stream of `size` bytes passed with any length.
ApiCall ==
    /\ pc = "call"
    /\ \E isbytes \in BOOLEAN, size \in Lengths, len \in ArgLengths :
         /\ isbytes => len = size
         /\ BeginUpload(Api, [bytes |-> isbytes, size |-> size], len)
    /\ UNCHANGED <<gui, entry, roles, ports, arg, res, device, serial, wire, last, raised,
                   stage, n, elapsed, mode, cmds, buf, out>>

\* What follows a send_frame call that returned.
AfterFrame(kind) ==
    CASE kind = "start" ->
           /\ pc' = "disk"
           /\ UNCHANGED <<stage, n, elapsed>>
      [] kind = "head" ->
           /\ pc' = "loop"
           /\ n' = 0
           /\ elapsed' = 0
           /\ stage' = stage
      [] kind = "data" ->
           /\ pc' = "loop"
           /\ UNCHANGED <<stage, n, elapsed>>
      [] kind = "tail" ->
           /\ elapsed' = 0
           /\ n' = 0
           /\ IF entry = "main"
              THEN NextStage
              ELSE /\ stage' = stage
                   /\ pc' = "exit"

\* send_frame returns: its locals (the loop counter, fails) are gone.
Return ==
    /\ sf' = "returned"
    /\ tries' = 0
    /\ writes' = 0
    /\ fails' = <<>>

\* One iteration of send_frame's loop: write the frame, read one byte.
SendFrame ==
    /\ pc = "send"
    /\ tries < Iterations(LoopOf(cur.kind))
    /\ IF serial = "none"
       THEN /\ last' = "ack"
            /\ Return
            /\ AfterFrame(cur.kind)
            /\ UNCHANGED <<wire, out, raised, exc>>
       ELSE \E outcome \in {"ack", "timeout", "write_error", "read_error"} :
              /\ last' = outcome
              /\ wire' = IF writes = 0 THEN Append(wire, cur) ELSE wire
              /\ out' = AttemptBytes(buf, tries)
              /\ IF outcome \in {"ack", "timeout"}
                 THEN /\ Return
                      /\ AfterFrame(cur.kind)
                      /\ UNCHANGED <<raised, exc>>
                 ELSE /\ tries' = tries + 1
                      /\ writes' = writes + 1
                      /\ fails' = Append(fails, tries + 1)
                      /\ IF tries + 1 < Iterations(LoopOf(cur.kind))
                         THEN /\ UNCHANGED <<pc, sf, raised, exc>>
                         ELSE /\ sf' = "raised"
                              /\ raised' = fails'[1]
                              /\ Raise("TransportError")
                      /\ UNCHANGED <<stage, n, elapsed>>
    /\ UNCHANGED <<gui, entry, roles, ports, arg, res, device, serial, timeout, cur, data,
                   length, nframes, mode, cmds, buf>>

\* The data loop of send_data / xupload: the next data frame, or the tail frame.
Loop ==
    /\ pc = "loop"
    /\ IF n < nframes
       THEN IF DeadlineExceeded(Api, elapsed)
            THEN /\ Raise("TimeoutException")
                 /\ UNCHANGED <<timeout, cur, tries, writes, fails, sf, n>>
            ELSE /\ n' = n + 1
                 /\ BeginFrame("data", DataIndex(Api, n), 0,
                               ChunkLo(n, data.size), ChunkHi(n, data.size))
                 /\ exc' = exc
       ELSE /\ BeginFrame("tail", TailCount(Api, n, nframes), 0, 0, 0)
            /\ UNCHANGED <<n, exc>>
    /\ UNCHANGED <<gui, entry, roles, ports, arg, res, device, serial, wire, last, raised,
                   stage, data, length, nframes, elapsed, mode, cmds, buf, out>>

\* Wall-clock time passes while an upload is past its header frame.
Tick ==
    /\ \/ pc = "loop"
       \/ pc = "send" /\ cur.kind \in {"data", "tail"}
    /\ elapsed <= UPLOAD_TIMEOUT
    /\ elapsed' = elapsed + TickSeconds
    /\ UNCHANGED <<gui, entry, roles, ports, arg, res, pc, device, serial, timeout, wire, cur,
                   tries, writes, fails, last, sf, raised, stage, data, length, nframes,
                   n, exc, mode, cmds, buf, out>>

\* Leaving the with-block: ImageFlasher.__exit__.
Exit ==
    /\ pc = "exit"
    /\ serial' = ExitSerial(serial)
    /\ pc' = ExitTarget(entry, exc)
    /\ UNCHANGED <<gui, entry, roles, ports, arg, res, device, timeout, wire, cur, tries,
                   writes, fails, last, sf, raised, stage, data, length, nframes, n,
                   elapsed, exc, mode, cmds, buf, out>>

\* main after the with-block: time.sleep(5), then the mode decides what follows.
Settle ==
    /\ pc = "settle"
    /\ \E m \in {"unlock", "wipefrp", "none"} :
         /\ mode' = m
         /\ pc' = IF Plan(m) = <<>> THEN "done" ELSE "fastboot"
    /\ UNCHANGED <<gui, entry, roles, ports, arg, res, device, serial, timeout, wire, cur,
                   tries, writes, fails, last, sf, raised, stage, data, length, nframes,
                   n, elapsed, exc, cmds, buf, out>>

\* main: the next run_fastboot of the mode; in unlock mode the key files written
\* between the first and the second command may fail to open.
RunFastboot ==
    /\ pc = "fastboot"
    /\ LET k == Len(cmds) + 1 IN
       \E fileok \in BOOLEAN :
         IF mode = "unlock" /\ k = 2 /\ ~fileok
         THEN /\ exc' = "OSError"
              /\ pc' = "done"
              /\ cmds' = cmds
         ELSE /\ cmds' = Append(cmds, Plan(mode)[k])
              /\ pc' = IF k = Len(Plan(mode)) THEN "done" ELSE "fastboot"
              /\ exc' = exc
    /\ UNCHANGED <<gui, entry, roles, ports, arg, res, device, serial, timeout, wire, cur,
                   tries, writes, fails, last, sf, raised, stage, data, length, nframes,
                   n, elapsed, mode, buf, out>>

Next ==
    \/ ConnectSerial
    \/ SendStartFrame
    \/ Stage
    \/ DownloadFromDisk
    \/ ApiCall
    \/ SendFrame
    \/ Loop
    \/ Tick
    \/ Exit
    \/ Settle
    \/ RunFastboot

Spec == Init /\ [][Next]_vars

----------------------------------------------------------------------------
\* connect_serial over every list of enumerated ports.

InitConnect ==
    /\ entry = "download"
    /\ roles = {}
    /\ pc = "connect"
    /\ ports \in AllPortLists
    /\ serial = "none"
    /\ timeout = 0
    /\ arg = NoArg
    /\ InitCommon

NextConnect ==
    \/ ConnectSerial
    \/ Exit

SpecConnect == InitConnect /\ [][NextConnect]_vars

----------------------------------------------------------------------------
\* calc_crc, the frame builders and send_frame on the bytes, on a connected flasher.

InitCodec ==
    /\ entry = "codec"
    /\ roles = {}
    /\ pc = "codec"
    /\ ports = <<>>
    /\ serial = "open"
    /\ timeout = DefaultTimeoutMs
    /\ arg \in CodecArgs
    /\ InitCommon

\* calc_crc(data)
CalcCrc ==
    /\ pc = "codec"
    /\ arg.op = "crc"
    /\ res' = calc_crc(arg.bytes)
    /\ pc' = "done"
    /\ UNCHANGED <<gui, entry, roles, ports, arg, device, serial, timeout, wire, cur, tries,
                   writes, fails, last, sf, raised, stage, data, length, nframes, n,
                   elapsed, exc, mode, cmds, buf, out>>

\* send_start_frame / send_head_frame / send_data_frame / send_tail_frame on the
\* bytes, up to send_frame's loop: the timeout, the frame, the trailer.
BuildFrame ==
    /\ pc = "codec"
    /\ arg.op # "crc"
    /\ timeout' = TimeoutOf(arg.op)
    /\ cur' = [kind |-> arg.op, n |-> IF arg.op = "head" THEN 0 ELSE arg.n,
               img |-> "image", len |-> IF arg.op = "head" THEN arg.n ELSE 0,
               lo |-> 0, hi |-> Len(arg.bytes)]
    /\ buf' = WithTrailer(FrameBody(arg))
    /\ tries' = 0
    /\ writes' = 0
    /\ fails' = <<>>
    /\ sf' = "running"
    /\ pc' = "send"
    /\ UNCHANGED <<gui, entry, roles, ports, arg, res, device, serial, wire, last, raised,
                   stage, data, length, nframes, n, elapsed, exc, mode, cmds, out>>

NextCodec ==
    \/ CalcCrc
    \/ BuildFrame
    \/ SendFrame

SpecCodec == InitCodec /\ [][NextCodec]_vars

----------------------------------------------------------------------------
\* The GUI: FlasherGUI's main thread, monitor_usb and the worker threads.

InitGui ==
    /\ entry = "gui"
    /\ roles = {}
    /\ pc = "gui"
    /\ ports = <<>>
    /\ serial = "none"
    /\ timeout = 0
    /\ arg = NoArg
    /\ InitCommon

\* Every button set to one state: the loop of update_device_status.
AllButtons(state) == [t \in Tabs |-> state]

\* start_process: only the button of the tab that was clicked is disabled.
ClickedDisabled(tab) == [go_button EXCEPT ![tab] = "disabled"]

\* The subprocesses that were started and have not ended.
Running == {i \in 1..Len(workers) : workers[i].pc = "proc"}

\* monitor_usb, one round of its loop that sees a change: lsusb says `present`.
MonitorUsb ==
    /\ events < MaxPending
    /\ \E present \in BOOLEAN :
         /\ present # device_connected
         /\ device_connected' = present
         /\ events' = events + 1
    /\ UNCHANGED <<flash, sudo_password, go_button, workers>>

\* The main thread runs a queued update_device_status.
UpdateDeviceStatus ==
    /\ events > 0
    /\ events' = events - 1
    /\ go_button' = AllButtons(IF device_connected THEN "normal" ELSE "disabled")
    /\ UNCHANGED <<flash, device_connected, sudo_password, workers>>

\* A click on the enabled Go button of a tab: start_process(tab).  Without sudo
\* access and without a stored password the popup asks for one; a failed
\* authentication returns before anything is started.
StartProcess ==
    /\ Len(workers) < MaxWorkers
    /\ \E tab \in Tabs, sudo \in BOOLEAN, auth \in BOOLEAN :
         /\ go_button[tab] = "normal"
         /\ IF ~sudo /\ ~sudo_password /\ ~auth
            THEN UNCHANGED <<sudo_password, go_button, workers>>
            ELSE /\ sudo_password' = (sudo_password \/ (~sudo /\ auth))
                 /\ go_button' = ClickedDisabled(tab)
                 /\ workers' = Append(workers, [tab |-> tab, pc |-> "spawned"])
    /\ UNCHANGED <<flash, device_connected, events>>

\* run_main_script: subprocess.Popen of main.py.
Popen ==
    /\ \E i \in 1..Len(workers) :
         /\ workers[i].pc = "spawned"
         /\ workers' = [workers EXCEPT ![i].pc = "proc"]
    /\ UNCHANGED <<flash, device_connected, sudo_password, go_button, events>>

\* run_main_script: the output ends and process.wait() returns.
ProcessWait ==
    /\ \E i \in 1..Len(workers) :
         /\ workers[i].pc = "proc"
         /\ workers' = [workers EXCEPT ![i].pc = "waited"]
    /\ UNCHANGED <<flash, device_connected, sudo_password, go_button, events>>

\* run_main_script: `if self.device_connected:`, read by the worker thread.
CheckDevice ==
    /\ \E i \in 1..Len(workers) :
         /\ workers[i].pc = "waited"
         /\ workers' = [workers EXCEPT ![i].pc =
                          IF device_connected THEN "enable" ELSE "done"]
    /\ UNCHANGED <<flash, device_connected, sudo_password, go_button, events>>

\* run_main_script: the tab's button back to "normal"; the thread ends.
Reenable ==
    /\ \E i \in 1..Len(workers) :
         /\ workers[i].pc = "enable"
         /\ go_button' = [go_button EXCEPT ![workers[i].tab] = "normal"]
         /\ workers' = [workers EXCEPT ![i].pc = "done"]
    /\ UNCHANGED <<flash, device_connected, sudo_password, events>>

NextGui ==
    \/ MonitorUsb
    \/ UpdateDeviceStatus
    \/ StartProcess
    \/ Popen
    \/ ProcessWait
    \/ CheckDevice
    \/ Reenable

SpecGui == InitGui /\ [][NextGui]_vars


TypeOK ==
    /\ entry \in {"main", "download", "xupload", "send_data", "codec", "gui"}
    /\ roles \subseteq Roles
    /\ pc \in {"connect", "start", "stage", "disk", "call", "send", "loop", "exit",
               "settle", "fastboot", "codec", "gui", "done"}
    /\ serial \in {"none", "open", "closed"}
    /\ sf \in {"idle", "running", "returned", "raised"}
    /\ stage \in 1..Len(StageOrder)
    /\ n >= 0 /\ (nframes > 0 => n <= nframes)
    /\ tries \in 0..StartLoop
    /\ mode \in {"unread", "unlock", "wipefrp", "none"}
    /\ \A i \in 1..Len(out) : out[i] \in 0..255
    /\ device_connected \in BOOLEAN
    /\ sudo_password \in BOOLEAN
    /\ go_button \in [Tabs -> {"disabled", "normal"}]
    /\ events \in 0..MaxPending
    /\ \A i \in 1..Len(workers) :
         /\ workers[i].tab \in Tabs
         /\ workers[i].pc \in {"spawned", "proc", "waited", "enable", "done"}
----------------------------------------------------------------------------
\* Vocabulary of the claims.

\* ceil(L / 1024), stated without the code's floor-and-remainder form.
FramesNeeded(L) == CHOOSE k \in 0..L : k * MAX_DATA_LEN >= L /\ (k - 1) * MAX_DATA_LEN < L

\* The entry before position i of the wire (NoFrame before the first).
Prev(i) == IF i > 1 THEN wire[i - 1] ELSE NoFrame

\* The position of the header frame of the upload that entry i belongs to (0: none).
HeadIdx(i) ==
    LET hs == {j \in 1..i : wire[j].kind = "head"}
    IN IF hs = {} THEN 0 ELSE CHOOSE j \in hs : \A k \in hs : k <= j

\* The data frames of the upload of entry i written before entry i.
DataBefore(i) == {j \in (HeadIdx(i) + 1)..(i - 1) : wire[j].kind = "data"}

Rank(img) ==
    CASE img = "xloader"  -> 1
      [] img = "uce"      -> 2
      [] img = "fastboot" -> 3
      [] OTHER            -> 0

\* Image img's tail frame was written before position i.
TailBefore(img, i) == \E j \in 1..(i - 1) : wire[j].kind = "tail" /\ wire[j].img = img

----------------------------------------------------------------------------
\* C1: the frames of every upload (send_data and xupload) are written in strict
\* order: one header frame, then data frames numbered 1, 2, ..., framesNeeded with
\* none skipped or repeated, then one tail frame; no data frame comes before the
\* header or after the tail.
C1_FrameOrder ==
    \A i \in 1..Len(wire) :
      LET f == wire[i]
          p == Prev(i)
      IN CASE f.kind = "start" -> i = 1
           [] f.kind = "head"  -> p.kind \in {"none", "start", "tail"}
           [] f.kind = "data"  ->
                /\ p.img = f.img
                /\ \/ p.kind = "head" /\ f.n = 1
                   \/ p.kind = "data" /\ f.n = p.n + 1
                /\ f.n <= FramesNeeded(wire[HeadIdx(i)].len)
           [] f.kind = "tail"  ->
                /\ p.kind = "data"
                /\ p.img = f.img
                /\ p.n = FramesNeeded(wire[HeadIdx(i)].len)

\* A complete upload of the largest payload: header, every data frame, tail.
C1_Witness ==
    \E i \in 1..Len(wire) :
      /\ wire[i].kind = "tail"
      /\ Cardinality(DataBefore(i)) = MaxChunks + 1
      /\ sf = "returned"

\* C2: the count a tail frame carries equals (modulo 256) the number of data
\* frames written for its upload, also when the last chunk is a short one.
C2_TailCount ==
    \A i \in 1..Len(wire) :
      wire[i].kind = "tail" =>
        SeqByte(wire[i].n) = Cardinality(DataBefore(i)) % 256

\* A tail frame written by send_data after a payload whose last chunk is short.
C2_Witness ==
    \E i \in 1..Len(wire) :
      /\ wire[i].kind = "tail"
      /\ entry = "download"
      /\ wire[HeadIdx(i)].len % MAX_DATA_LEN = 1
      /\ Cardinality(DataBefore(i)) > 1

\* C3: when every attempt of a frame fails, send_frame has made as many write
\* attempts as the frame kind's budget (10000 start, 10 header, 10 tail, 40 data)
\* when it propagates the failure.
C3_AttemptBudget == sf = "raised" => writes = LoopOf(cur.kind)

\* C4: send_frame never returns success on an attempt whose 1-byte read timed out.
C4_TimeoutIsFailure == ~(sf = "returned" /\ last = "timeout")

\* C5: in send_data, a data frame that is due more than 50 seconds after the
\* header frame is not sent: the upload raises TimeoutException, and from then on
\* nothing more (no data frame, no tail frame) is written.
C5_DeadlineAborts ==
    [][ /\ (Api = "send_data" /\ pc = "loop" /\ n < nframes /\ elapsed > UPLOAD_TIMEOUT)
           => (exc' = "TimeoutException" /\ pc' = "exit" /\ wire' = wire /\ cur' = cur)
        /\ exc = "TimeoutException" => wire' = wire ]_vars

\* send_data timed out in mid-transfer, after a data frame and before the last one.
C5_Witness ==
    /\ exc = "TimeoutException"
    /\ entry = "download"
    /\ wire # <<>>
    /\ wire[Len(wire)].kind = "data"
    /\ wire[Len(wire)].n < nframes

\* C6: every upload of main's stage sequence (xupload) aborts with
\* TimeoutException once its data loop finds the 50 second deadline exceeded.
C6_XuploadDeadline ==
    [][ (Api = "xupload" /\ pc = "loop" /\ n < nframes /\ elapsed > UPLOAD_TIMEOUT)
           => exc' = "TimeoutException" ]_vars

\* C7: in main the first frame on the wire is the start frame (no header, data or
\* tail frame is written before it).
C7_StartFrameFirst == (entry = "main" /\ wire # <<>>) => wire[1].kind = "start"

\* C8: with a mandatory role (xloader, fastboot) missing from the RoleTable, main
\* opens no serial connection and sends no frame.
C8_NoConnectionWithoutRoles ==
    (entry = "main" /\ ~({"xloader", "fastboot"} \subseteq roles))
       => (serial = "none" /\ wire = <<>>)

\* C9: when the with-block has been left, normally or by an exception of any
\* step, the connection connect_serial opened is closed.
C9_ClosedOnExit == pc = "done" => serial # "open"

\* The block was left by an exception in mid-upload, and the connection is closed.
C9_Witness ==
    /\ pc = "done"
    /\ serial = "closed"
    /\ exc \in {"TransportError", "TimeoutException"}
    /\ wire # <<>>

\* C10: main uploads xloader, then uce only if the RoleTable has it, then
\* fastboot; an image's frames are written only after the images before it were
\* uploaded completely, and once an upload has failed nothing more is written.
C10_Order ==
    entry = "main" =>
      \A i \in 1..Len(wire) :
        /\ wire[i].img \in Roles
        /\ \A j \in 1..i : Rank(wire[j].img) <= Rank(wire[i].img)
        /\ wire[i].img = "uce" => ("uce" \in roles /\ TailBefore("xloader", i))
        /\ wire[i].img = "fastboot" =>
             /\ TailBefore("xloader", i)
             /\ "uce" \in roles => TailBefore("uce", i)

C10_StageOrder == [](C10_Order) /\ [][exc # "none" => wire' = wire]_vars

\* All three images were uploaded, in order.
C10_Witness ==
    /\ entry = "main"
    /\ "uce" \in roles
    /\ \E i \in 1..Len(wire) : wire[i].img = "fastboot" /\ wire[i].kind = "tail"

----------------------------------------------------------------------------
\* Vocabulary of the later claims.

\* Image img's tail frame is on the wire.
TailOnWire(img) == \E j \in 1..Len(wire) : wire[j].kind = "tail" /\ wire[j].img = img

\* The bitwise complement of a byte.
BitNot8(s) == Xor(s, 255)

\* The checksum as specified: a 16-bit accumulator, truncated after every step.
SpecCrcStep(a, b) == Xor(a * 256 + b, CrcHqxByte((a \div 256) % 256)) % 65536

RECURSIVE SpecCrcFeed(_, _)
SpecCrcFeed(a, s) ==
    IF s = <<>> \/ a < 0 THEN a
    ELSE SpecCrcFeed(SpecCrcStep(a, Head(s)), Tail(s))

SpecChecksum(d) == SpecCrcFeed(SpecCrcFeed(0, d), <<0, 0>>)

\* The ports of the list that carry both IDT ids.
FullMatches == {i \in 1..Len(ports) : ports[i].vid = IDT_VID /\ ports[i].pid = IDT_PID}

----------------------------------------------------------------------------
\* C11: an upload whose payload is empty or whose length is zero or negative (a
\* negative length passed with a stream included) ends with FlashException, and no
\* frame of it is sent.
C11_RejectsNonPositive ==
    (data # NoData /\ length <= 0) =>
       /\ exc = "FlashException"
       /\ pc \notin {"send", "loop"}
       /\ entry \in {"xupload", "send_data"} => wire = <<>>

\* C12: an upload called on a flasher that is not connected ends with
\* FlashException, for xupload and for send_data alike; it never ends as a
\* successful upload.
C12_UnconnectedFails ==
    (data # NoData /\ length > 0 /\ serial = "none" /\ pc \in {"exit", "done"})
       => exc = "FlashException"

\* C13: when send_frame has used up its attempts, the failure it raises is the
\* last one it recorded.
C13_RaisesLastFailure ==
    sf = "raised" => (fails # <<>> /\ raised = fails[Len(fails)])

\* C14: for a payload of L >= 1 bytes the i-th data frame carries the payload bytes
\* [(i-1)*1024, min(i*1024, L)): at most 1024 bytes, fewer only in the last frame;
\* and a completed upload has sent ceil(L / 1024) data frames.  (The payload is
\* the whole of `data`: bytes, or a file passed with its size.)
C14_Chunks ==
    \A i \in 1..Len(wire) :
      LET h == HeadIdx(i)
          f == wire[i]
      IN (h > 0 /\ wire[h].len >= 1 /\ wire[h].hi = wire[h].len) =>
           LET L == wire[h].len IN
           /\ f.kind = "data" =>
                /\ f.lo = (f.n - 1) * MAX_DATA_LEN
                /\ f.hi = Min(f.n * MAX_DATA_LEN, L)
                /\ f.hi - f.lo \in 1..MAX_DATA_LEN
                /\ f.hi - f.lo < MAX_DATA_LEN => f.n = FramesNeeded(L)
           /\ f.kind = "tail" =>
                /\ Cardinality(DataBefore(i)) = FramesNeeded(L)
                /\ wire[i - 1].hi = L

\* A completed upload of full chunks and a last chunk of one byte.
C14_Witness ==
    \E i \in 1..Len(wire) :
      /\ wire[i].kind = "tail"
      /\ wire[HeadIdx(i)].len = MaxChunks * MAX_DATA_LEN + 1
      /\ wire[i - 1].hi - wire[i - 1].lo = 1
      /\ sf = "returned"

\* C15: connect_serial without a path raises DeviceDetectException and opens
\* nothing when no port or more than one port carries both ids 0x12D1 / 0x3609,
\* and selects the single port that does when there is exactly one; a port with
\* only one of the two ids does not count.
C15_DeviceSelection ==
    pc # "connect" =>
      /\ Cardinality(FullMatches) # 1 =>
           (exc = "DeviceDetectException" /\ serial = "none" /\ device = 0)
      /\ Cardinality(FullMatches) = 1 =>
           /\ exc # "DeviceDetectException"
           /\ \A i \in FullMatches : device = ports[i].device
           /\ serial = "open" \/ exc = "SerialException"

\* The one IDT port was opened among ports that carry only one of the ids.
C15_Witness ==
    /\ serial = "open"
    /\ Len(ports) > 2
    /\ \E i \in 1..Len(ports) : ports[i].vid = IDT_VID /\ ports[i].pid # IDT_PID
    /\ \E i \in 1..Len(ports) : ports[i].vid # IDT_VID /\ ports[i].pid = IDT_PID
    /\ device > 1

\* C16: in every data frame of index n (n > 255 included) and in every tail frame
\* of count n, the second byte is n mod 256 and the third its bitwise complement,
\* so the two add up to 255.
C16_SeqComplement ==
    (cur.kind \in {"data", "tail"} /\ buf # <<>>) =>
       /\ buf[2] = arg.n % 256
       /\ buf[3] = BitNot8(buf[2])
       /\ buf[2] + buf[3] = 255

\* A data frame of an index above 255 was written.
C16_Witness ==
    /\ cur.kind = "data"
    /\ arg.n > 256
    /\ out # <<>>

\* C17: main issues a fastboot command only after every upload of the run
\* succeeded and the serial session was closed; a run whose connection or upload
\* failed issues none.
C17_FastbootAfterUploads ==
    (cmds # <<>> \/ pc = "fastboot") =>
       /\ entry = "main"
       /\ serial = "closed"
       /\ sf = "returned"
       /\ TailOnWire("xloader")
       /\ TailOnWire("fastboot")
       /\ "uce" \in roles => TailOnWire("uce")
       /\ exc \in {"none", "OSError"}

\* The whole unlock sequence was issued.
C17_Witness == cmds = Plan("unlock")

\* C18: whenever a frame is about to be written to the open connection (first
\* attempt or retry), the read timeout is the one of its kind: 30 ms start, 90 ms
\* header, 450 ms data, 10 ms tail.
C18_TimeoutPerKind ==
    (pc = "send" /\ serial = "open") =>
       timeout = CASE cur.kind = "start" -> 30
                   [] cur.kind = "head"  -> 90
                   [] cur.kind = "data"  -> 450
                   [] cur.kind = "tail"  -> 10

\* The header of the second image is retried right after the first image's tail.
C18_Witness ==
    /\ pc = "send"
    /\ cur.kind = "head"
    /\ cur.img = "uce"
    /\ tries > 0
    /\ wire[Len(wire) - 1].kind = "tail"

\* C19: calc_crc, which masks once at the end, returns what the specified
\* algorithm returns, which truncates the accumulator to 16 bits after each step.
C19_CrcEquivalence == res # -1 => res = SpecChecksum(arg.bytes)

\* An input long enough for the unmasked accumulator to pass 16 bits.
C19_Witness ==
    /\ res # -1
    /\ Len(arg.bytes) = MaxCrcLen
    /\ arg.bytes[1] = 255
    /\ res > 255

\* C20: every write of send_frame, first attempt or retry, carries the frame's
\* header and body followed by one 2-byte big-endian checksum of exactly those
\* bytes.
C20_SameBytesEveryAttempt ==
    out # <<>> =>
      LET body == FrameBody(arg) IN
      /\ Len(out) = Len(body) + 2
      /\ SubSeq(out, 1, Len(body)) = body
      /\ 256 * out[Len(out) - 1] + out[Len(out)] = calc_crc(body)

\* A data frame written a third time.
C20_Witness ==
    /\ out # <<>>
    /\ cur.kind = "data"
    /\ tries >= 3

\* C21: in the GUI at most one main.py subprocess is running at any time,
\* whatever the monitor thread, the workers and the user's clicks on either tab
\* do.
C21_SingleSubprocess == Cardinality(Running) <= 1
====
